---- MODULE Spec2Model ----
(***************************************************************************)
(* A model of the WhatsApp chat analyzer (src/app.py): parse_chat turns    *)
(* the lines of an exported chat into records, analyze_chat filters them   *)
(* by an optional inclusive date range and counts them per sender, per     *)
(* day and per hour, and main drives parse -> filter -> aggregate ->       *)
(* render.                                                                 *)
(*                                                                         *)
(* A line is a sequence of one-character strings.  A datetime is a record  *)
(* [year, month, day, tod] whose tod is 0 for time.min (midnight, what     *)
(* strptime yields for a date-only format) and 1 for time.max; a date is   *)
(* [year, month, day].  Python's None is the record None.  A pandas        *)
(* DataFrame is [columns, rows], a row being a function on the columns; a  *)
(* pandas Series of counts is [index, count].  The order of a Series'      *)
(* entries is not modelled.                                                *)
(***************************************************************************)
EXTENDS Integers, Sequences, FiniteSets, TLC

VARIABLES
    text,               \* file_content.split('\n'): the lines of the upload
    pc,                 \* the position reached in main (or in a direct call)
    outcome,            \* per line, what the loop of parse_chat did with it
    df,                 \* the caller's frame: what parse_chat returned
    min_date, max_date, \* main: df['date'].min(), df['date'].max()
    start_date, end_date, \* the bounds handed to analyze_chat
    participant_stats, daily_activity, hourly_activity, \* analyze_chat's result
    filtered,           \* analyze_chat's local df when it returned
    metrics             \* the three st.metric values handed to rendering

vars == <<text, pc, outcome, df, min_date, max_date, start_date, end_date,
          participant_stats, daily_activity, hourly_activity, filtered, metrics>>

None == [none |-> TRUE]

ValueError == [error |-> "ValueError"]

\* The number of lines of an uploaded text.
MaxLines == 2

(***************************************************************************)
(* Characters.                                                             *)
(***************************************************************************)
Digit == {"0", "1", "2", "3", "4", "5", "6", "7", "8", "9"}

DigitVal(c) ==
    CASE c = "0" -> 0 [] c = "1" -> 1 [] c = "2" -> 2 [] c = "3" -> 3
      [] c = "4" -> 4 [] c = "5" -> 5 [] c = "6" -> 6 [] c = "7" -> 7
      [] c = "8" -> 8 [] c = "9" -> 9

\* int() of a string of decimal digits.
RECURSIVE IntOf(_)
IntOf(s) ==
    IF s = <<>> THEN 0
    ELSE 10 * IntOf(SubSeq(s, 1, Len(s) - 1)) + DigitVal(s[Len(s)])

\* What str.strip() removes.
WhiteSpace == {" ", "\t", "\r"}

\* s[p .. p+n-1] are n digits (\d{n} at position p).
IsDigits(s, p, n) ==
    /\ p + n - 1 <= Len(s)
    /\ \A i \in p .. (p + n - 1) : s[i] \in Digit

\* The literal lit stands at position p of s.
Lit(s, p, lit) ==
    /\ p + Len(lit) - 1 <= Len(s)
    /\ \A i \in 1 .. Len(lit) : s[p + i - 1] = lit[i]

\* s[p .. p+n-1] are n characters other than ':' ([^:]{n} at position p).
IsNoColon(s, p, n) ==
    /\ p + n - 1 <= Len(s)
    /\ \A i \in p .. (p + n - 1) : s[i] # ":"

(***************************************************************************)
(* re.match(pattern, line) with                                            *)
(*   (\d{1,2}/\d{1,2}/\d{2,4}), (\d{2}:\d{2}) - ([^:]+): (.+)              *)
(* A way to match is <<a, b, c, k>>: the widths of the three date fields   *)
(* and of the sender.  The match is anchored at the start of the line; a   *)
(* line holds no '\n', so (.+) takes all that is left, at least one        *)
(* character.  The quantifiers are greedy: of the ways to match, the       *)
(* engine returns the one with the widest fields, leftmost field first.    *)
(***************************************************************************)
Ways(line) ==
    { w \in (1 .. 2) \X (1 .. 2) \X (2 .. 4) \X (1 .. Len(line)) :
        LET a == w[1]
            b == w[2]
            c == w[3]
            k == w[4]
            pTime == a + b + c + 5
            pSender == pTime + 8
        IN  /\ IsDigits(line, 1, a)
            /\ Lit(line, 1 + a, <<"/">>)
            /\ IsDigits(line, 2 + a, b)
            /\ Lit(line, 2 + a + b, <<"/">>)
            /\ IsDigits(line, 3 + a + b, c)
            /\ Lit(line, 3 + a + b + c, <<",", " ">>)
            /\ IsDigits(line, pTime, 2)
            /\ Lit(line, pTime + 2, <<":">>)
            /\ IsDigits(line, pTime + 3, 2)
            /\ Lit(line, pTime + 5, <<" ", "-", " ">>)
            /\ IsNoColon(line, pSender, k)
            /\ Lit(line, pSender + k, <<":", " ">>)
            /\ pSender + k + 2 <= Len(line) }

Greedier(w, o) ==
    \/ w = o
    \/ \E i \in 1 .. 4 : w[i] > o[i] /\ \A j \in 1 .. (i - 1) : w[j] = o[j]

\* The four groups of the match that takes the way w.
GroupsAt(line, w) ==
    [date |-> SubSeq(line, 1, w[1] + w[2] + w[3] + 2),
     time |-> SubSeq(line, w[1] + w[2] + w[3] + 5, w[1] + w[2] + w[3] + 9),
     sender |-> SubSeq(line, w[1] + w[2] + w[3] + 13,
                       w[1] + w[2] + w[3] + w[4] + 12),
     message |-> SubSeq(line, w[1] + w[2] + w[3] + w[4] + 15, Len(line))]

GroupsOf(line, W) ==
    IF W = {} THEN None
    ELSE GroupsAt(line, CHOOSE x \in W : \A o \in W : Greedier(x, o))

\* match.groups(), or None when the line does not match.
ReMatch(line) == GroupsOf(line, Ways(line))

(***************************************************************************)
(* datetime.strptime.  A format directive is a regular expression:         *)
(*   %m  1[0-2]|0[1-9]|[1-9]          %y  \d\d                             *)
(*   %d  3[0-1]|[1-2]\d|0[1-9]|[1-9]| [1-9]       %Y  \d\d\d\d             *)
(* The format's expression is matched at the start of the string; no match *)
(* is a ValueError, and so is a match that leaves characters unconverted.  *)
(***************************************************************************)
\* The widths n for which s[p .. p+n-1] matches %m.
MonthWidths(s, p) ==
    { n \in 1 .. 2 :
        /\ p + n - 1 <= Len(s)
        /\ \/ n = 2 /\ s[p] = "1" /\ s[p + 1] \in {"0", "1", "2"}
           \/ n = 2 /\ s[p] = "0" /\ s[p + 1] \in Digit \ {"0"}
           \/ n = 1 /\ s[p] \in Digit \ {"0"} }

\* The widths n for which s[p .. p+n-1] matches %d.
DayWidths(s, p) ==
    { n \in 1 .. 2 :
        /\ p + n - 1 <= Len(s)
        /\ \/ n = 2 /\ s[p] = "3" /\ s[p + 1] \in {"0", "1"}
           \/ n = 2 /\ s[p] \in {"1", "2"} /\ s[p + 1] \in Digit
           \/ n = 2 /\ s[p] = "0" /\ s[p + 1] \in Digit \ {"0"}
           \/ n = 2 /\ s[p] = " " /\ s[p + 1] \in Digit \ {"0"}
           \/ n = 1 /\ s[p] \in Digit \ {"0"} }

IsLeap(year) ==
    /\ year % 4 = 0
    /\ (year % 100 # 0 \/ year % 400 = 0)

DaysInMonth(year, month) ==
    IF month = 2 THEN (IF IsLeap(year) THEN 29 ELSE 28)
    ELSE IF month \in {4, 6, 9, 11} THEN 30 ELSE 31

\* The datetime constructor: a ValueError unless the fields name a day of
\* the calendar (years 1 .. 9999).
MakeDatetime(year, month, day) ==
    IF /\ year \in 1 .. 9999
       /\ month \in 1 .. 12
       /\ day \in 1 .. DaysInMonth(year, month)
    THEN [year |-> year, month |-> month, day |-> day, tod |-> 0]
    ELSE ValueError

\* %y: the POSIX pivot, 69 .. 99 are 1969 .. 1999 and 0 .. 68 are 2000 .. 2068.
TwoDigitYear(yy) == IF yy <= 68 THEN 2000 + yy ELSE 1900 + yy

\* The ways <<a, b>> the fields of a three-field format match s: a is the
\* width of the first field, b of the second, the year takes yw digits.
FormatWays(s, monthFirst, yw) ==
    { w \in (1 .. 2) \X (1 .. 2) :
        /\ w[1] \in (IF monthFirst THEN MonthWidths(s, 1) ELSE DayWidths(s, 1))
        /\ Lit(s, 1 + w[1], <<"/">>)
        /\ w[2] \in (IF monthFirst THEN DayWidths(s, 2 + w[1])
                                   ELSE MonthWidths(s, 2 + w[1]))
        /\ Lit(s, 2 + w[1] + w[2], <<"/">>)
        /\ IsDigits(s, 3 + w[1] + w[2], yw) }

\* The match the engine returns: alternatives are tried in the order
\* written, the two-character ones first.
FirstWay(W) ==
    CHOOSE x \in W : \A o \in W :
        \/ x = o
        \/ x[1] > o[1]
        \/ x[1] = o[1] /\ x[2] > o[2]

\* The fields converted and handed to the datetime constructor; a match
\* that ends before the string does is a ValueError ("unconverted data
\* remains").
ConvertAt(s, w, monthFirst, yw) ==
    IF 2 + w[1] + w[2] + yw # Len(s) THEN ValueError
    ELSE MakeDatetime(
           IF yw = 2 THEN TwoDigitYear(IntOf(SubSeq(s, 3 + w[1] + w[2], Len(s))))
                     ELSE IntOf(SubSeq(s, 3 + w[1] + w[2], Len(s))),
           IntOf(IF monthFirst THEN SubSeq(s, 1, w[1])
                               ELSE SubSeq(s, 2 + w[1], 1 + w[1] + w[2])),
           IntOf(IF monthFirst THEN SubSeq(s, 2 + w[1], 1 + w[1] + w[2])
                               ELSE SubSeq(s, 1, w[1])))

Convert(s, W, monthFirst, yw) ==
    IF W = {} THEN ValueError ELSE ConvertAt(s, FirstWay(W), monthFirst, yw)

\* strptime with a format of three fields, month first or day first, whose
\* year has yw digits.
Strptime(s, monthFirst, yw) ==
    Convert(s, FormatWays(s, monthFirst, yw), monthFirst, yw)

\* '%m/%d/%y' written '%d/%m/%y'.
Strptime_mdy_dayfirst(s) == Strptime(s, FALSE, 2)

\* '%m/%d/%y' without the check for unconverted data: %y reads the first
\* two digits of a longer year field and the rest is ignored.
Strptime_mdy_prefix(s) ==
    Strptime(IF Len(s) > 4 /\ IsDigits(s, Len(s) - 3, 4)
             THEN SubSeq(s, 1, Len(s) - 2)
             ELSE IF Len(s) > 3 /\ IsDigits(s, Len(s) - 2, 3)
             THEN SubSeq(s, 1, Len(s) - 1)
             ELSE s, TRUE, 2)

\* datetime.strptime(s, '%m/%d/%y')
Strptime_mdy(s) == Strptime(s, TRUE, 2)

\* datetime.strptime(s, '%d/%m/%Y')
Strptime_dmY(s) == Strptime(s, FALSE, 4)

(***************************************************************************)
(* parse_chat.                                                             *)
(***************************************************************************)
\* str.strip()
RECURSIVE LStrip(_)
LStrip(s) ==
    IF s # <<>> /\ Head(s) \in WhiteSpace THEN LStrip(Tail(s)) ELSE s

RECURSIVE RStrip(_)
RStrip(s) ==
    IF s # <<>> /\ s[Len(s)] \in WhiteSpace
    THEN RStrip(SubSeq(s, 1, Len(s) - 1)) ELSE s

\* str.lstrip() in place of str.strip().
Strip_leftonly(s) == LStrip(s)

Strip(s) == RStrip(LStrip(s))

\* The record appended for the groups m and the date parsed_date.
Appended(m, parsed_date, rule) ==
    [kind |-> "record", groups |-> m, rule |-> rule,
     rec |-> [date |-> parsed_date,
              time |-> m.time,
              sender |-> Strip(m.sender),
              message |-> m.message]]

\* Lines 19-28: d1 is what '%m/%d/%y' gave and d2 what '%d/%m/%Y' gave; the
\* second is looked at only when the first is a ValueError, and when both
\* are the line is skipped.
Resolve(m, d1, d2) ==
    IF d1 # ValueError THEN Appended(m, d1, 1)
    ELSE IF d2 # ValueError THEN Appended(m, d2, 2)
    ELSE [kind |-> "skipped", groups |-> m, rule |-> 0, rec |-> None]

Matched(m) ==
    IF m = None
    THEN [kind |-> "nomatch", groups |-> None, rule |-> 0, rec |-> None]
    ELSE Resolve(m, Strptime_mdy(m.date), Strptime_dmY(m.date))

\* The body of the loop for one line: what became of the line ("nomatch",
\* "skipped" or "record"), the groups matched, the date rule that read the
\* token (1: %m/%d/%y, 2: %d/%m/%Y) and the record appended.
ParseLine(line) == Matched(ReMatch(line))

\* The records appended, in line order, done being the loop's outcomes.
Records(done) ==
    LET appended(o) == o.kind = "record"
    IN  [i \in DOMAIN SelectSeq(done, appended) |->
            SelectSeq(done, appended)[i].rec]

\* The messages list after the loop.
Messages(lines) == Records([i \in DOMAIN lines |-> ParseLine(lines[i])])

\* pd.DataFrame(messages)
DataFrame(messages) ==
    [columns |-> {"date", "time", "sender", "message"}, rows |-> messages]

\* Lines 40-44.
Returned(messages) ==
    IF messages = <<>> THEN None ELSE DataFrame(messages)

\* parse_chat without the guard of lines 40-41.
ParseChat_noguard(lines) == DataFrame(Messages(lines))

\* parse_chat(file_content), lines being file_content.split('\n').
ParseChat(lines) == Returned(Messages(lines))

(***************************************************************************)
(* analyze_chat.                                                           *)
(***************************************************************************)
\* The order of datetimes.
DtKey(d) == ((d.year * 100 + d.month) * 100 + d.day) * 2 + d.tod

Ge(a, b) == DtKey(a) >= DtKey(b)

Gt(a, b) == DtKey(a) > DtKey(b)

Le(a, b) == DtKey(a) <= DtKey(b)

\* df.empty
Empty(frame) == frame.rows = <<>>

\* The lower bound made exclusive: df[df['date'] > start_date].
FromStart_strict(frame, start) ==
    LET keep(r) == Gt(r["date"], start)
    IN  [columns |-> frame.columns, rows |-> SelectSeq(frame.rows, keep)]

\* df[df['date'] >= start_date]: a new frame of the rows at or after start.
FromStart(frame, start) ==
    LET keep(r) == Ge(r["date"], start)
    IN  [columns |-> frame.columns, rows |-> SelectSeq(frame.rows, keep)]

\* df[df['date'] <= end_date]
UpToEnd(frame, end) ==
    LET keep(r) == Le(r["date"], end)
    IN  [columns |-> frame.columns, rows |-> SelectSeq(frame.rows, keep)]

\* Every value of the column counted once (nunique in place of size).
GroupSize_unique(frame, col) ==
    LET keys == { frame.rows[i][col] : i \in DOMAIN frame.rows }
    IN  [index |-> keys, count |-> [k \in keys |-> 1]]

\* df[col].value_counts() and df.groupby(col).size(): per value of the
\* column, the number of rows that hold it.
GroupSize(frame, col) ==
    LET keys == { frame.rows[i][col] : i \in DOMAIN frame.rows }
    IN  [index |-> keys,
         count |-> [k \in keys |->
                      Cardinality({ i \in DOMAIN frame.rows : frame.rows[i][col] = k })]]

\* df['hour'] = df['time'].str[:2].astype(int): the frame gains (or
\* overwrites) the column hour.
WithHour(frame) ==
    [columns |-> frame.columns \cup {"hour"},
     rows |-> [i \in DOMAIN frame.rows |->
                 [c \in frame.columns \cup {"hour"} |->
                    IF c = "hour" THEN IntOf(SubSeq(frame.rows[i]["time"], 1, 2))
                    ELSE frame.rows[i][c]]]]

\* Lines 56-66 on the filtered frame f: the three summaries.  aliased says
\* that f is the caller's frame itself, which then gains the column hour.
Summaries(frame, f, aliased) ==
    [ret |-> <<GroupSize(f, "sender"), GroupSize(f, "date"),
               GroupSize(WithHour(f), "hour")>>,
     local |-> WithHour(f),
     caller |-> IF aliased THEN WithHour(f) ELSE frame]

\* Lines 51-54: each filter, when its bound is given, binds df to a new
\* frame.
Filter(frame, start, end) ==
    IF start # None
    THEN (IF end # None THEN UpToEnd(FromStart(frame, start), end)
                        ELSE FromStart(frame, start))
    ELSE (IF end # None THEN UpToEnd(frame, end) ELSE frame)

\* analyze_chat(frame, start, end): ret is the triple returned, local the
\* function's df when it returned, caller the frame the caller passed, as it
\* is after the call.
AnalyzeChat(frame, start, end) ==
    IF frame = None \/ Empty(frame)
    THEN [ret |-> <<None, None, None>>, local |-> None, caller |-> frame]
    ELSE Summaries(frame, Filter(frame, start, end),
                   start = None /\ end = None)

(***************************************************************************)
(* main.                                                                   *)
(***************************************************************************)
\* datetime.date()
DateOf(d) == [year |-> d.year, month |-> d.month, day |-> d.day]

\* datetime.combine(date, datetime.min.time()) with tod = 0 and
\* datetime.combine(date, datetime.max.time()) with tod = 1.
Combine(date, tod) ==
    [year |-> date.year, month |-> date.month, day |-> date.day, tod |-> tod]

\* df['date'].min() and df['date'].max()
MinDate(frame) ==
    LET D == { frame.rows[i]["date"] : i \in DOMAIN frame.rows }
    IN  CHOOSE d \in D : \A o \in D : Le(d, o)

MaxDate(frame) ==
    LET D == { frame.rows[i]["date"] : i \in DOMAIN frame.rows }
    IN  CHOOSE d \in D : \A o \in D : Ge(d, o)

(***************************************************************************)
(* The inputs.                                                             *)
(***************************************************************************)
\* the spec's example, line 1
Line_hi ==
    <<"1", "2", "/", "1", "/", "2", "3", ",", " ", "0", "9", ":", "1", "5", " ", "-", " ", "A", "l", "i", "c", "e", ":", " ", "h", "i">>

\* a second sender on the same day
Line_hello ==
    <<"1", "2", "/", "1", "/", "2", "3", ",", " ", "0", "9", ":", "4", "0", " ", "-", " ", "B", "o", "b", ":", " ", "y", "o">>

\* no match: a continuation line
Line_note ==
    <<"n", "o", "t", " ", "a", " ", "m", "e", "s", "s", "a", "g", "e">>

\* a later day, hour 23
Line_bye ==
    <<"1", "2", "/", "2", "/", "2", "3", ",", " ", "2", "3", ":", "0", "5", " ", "-", " ", "A", "l", "i", "c", "e", ":", " ", "b", "y", "e">>

\* the empty line ('' is what ''.split yields)
Line_empty ==
    <<>>

\* the ambiguous token, a sender with a trailing blank, a message with colons
Line_ambig ==
    <<"0", "3", "/", "0", "4", "/", "2", "3", ",", " ", "1", "0", ":", "0", "0", " ", "-", " ", "B", "o", "b", " ", ":", " ", "a", ":", " ", "b">>

\* a day/month/4-digit-year token and the time token 99:00
Line_dmY ==
    <<"3", "/", "1", "2", "/", "2", "0", "2", "3", ",", " ", "9", "9", ":", "0", "0", " ", "-", " ", "A", "l", ":", " ", "x">>

\* day/month/2-digit-year with day > 12
Line_dayfirst ==
    <<"2", "5", "/", "1", "2", "/", "2", "3", ",", " ", "0", "9", ":", "1", "5", " ", "-", " ", "A", "l", ":", " ", "x">>

\* a sender of one blank
Line_blank ==
    <<"1", "2", "/", "3", "/", "2", "3", ",", " ", "0", "9", ":", "1", "5", " ", "-", " ", " ", ":", " ", "x">>

\* no match: a one-digit hour
Line_hour1 ==
    <<"1", "2", "/", "2", "/", "2", "3", ",", " ", "9", ":", "0", "5", " ", "-", " ", "A", "l", ":", " ", "x">>

\* no match: no blank after the colon
Line_nospace ==
    <<"1", "2", "/", "2", "/", "2", "3", ",", " ", "0", "9", ":", "1", "5", " ", "-", " ", "A", "l", ":", "x">>

\* no match: nothing after the prefix
Line_nomsg ==
    <<"1", "2", "/", "2", "/", "2", "3", ",", " ", "0", "9", ":", "1", "5", " ", "-", " ", "A", "l", ":", " ">>

Lines ==
    {Line_hi, Line_hello, Line_note, Line_bye,
     Line_empty, Line_ambig, Line_dmY, Line_dayfirst,
     Line_blank, Line_hour1, Line_nospace, Line_nomsg}

\* The texts uploaded: 1 .. MaxLines lines (split yields at least one).
RECURSIVE Texts(_)
Texts(n) ==
    IF n = 0 THEN {<<>>}
    ELSE { Append(t, l) : t \in Texts(n - 1), l \in Lines }

Uploads == UNION { Texts(n) : n \in 1 .. MaxLines }

\* The days a user picks in the sidebar's two date inputs.
DateChoices ==
    { [year |-> 2023, month |-> 12, day |-> d] : d \in {1, 2, 3} }

\* The bounds of a direct call of analyze_chat: absent, or a midnight.
CallBounds == {None} \cup { Combine(d, 0) : d \in DateChoices }

\* The date tokens of the one-line texts: every pairing of these fields.
Fields ==
    {<<"0">>, <<"1">>, <<"2">>, <<"0", "3">>, <<"0", "4">>, <<"1", "2">>,
     <<"1", "3">>, <<"2", "9">>, <<"3", "1">>}

Years ==
    {<<"2", "3">>, <<"2", "4">>, <<"6", "9">>, <<"1", "2", "3">>,
     <<"2", "0", "2", "3">>, <<"2", "0", "2", "4">>, <<"0", "0", "0", "0">>}

TokenLines ==
    { a \o <<"/">> \o b \o <<"/">> \o y
        \o <<",", " ", "0", "9", ":", "1", "5", " ", "-", " ", "A", ":", " ", "x">> :
        a \in Fields, b \in Fields, y \in Years }

(***************************************************************************)
(* The state machine.                                                      *)
(***************************************************************************)
InitWith(lines) ==
    /\ text = lines
    /\ pc = "start"
    /\ outcome = <<>>
    /\ df = None
    /\ min_date = None
    /\ max_date = None
    /\ start_date = None
    /\ end_date = None
    /\ participant_stats = None
    /\ daily_activity = None
    /\ hourly_activity = None
    /\ filtered = None
    /\ metrics = None

Init == \E lines \in Uploads : InitWith(lines)

\* main, lines 85-90: parse the upload; with no valid message, report it
\* and return.
MainParse ==
    /\ pc = "start"
    /\ outcome' = [i \in DOMAIN text |-> ParseLine(text[i])]
    /\ df' = ParseChat(text)
    /\ pc' = IF df' = None \/ Empty(df') THEN "no_messages" ELSE "parsed"
    /\ UNCHANGED <<text, min_date, max_date, start_date, end_date,
                   participant_stats, daily_activity, hourly_activity,
                   filtered, metrics>>

\* main, lines 93-98: the range of the dataset and the two dates picked
\* (the defaults are the range's ends).
MainDateInput ==
    /\ pc = "parsed"
    /\ min_date' = MinDate(df)
    /\ max_date' = MaxDate(df)
    /\ \E s, e \in DateChoices \cup {DateOf(MinDate(df)), DateOf(MaxDate(df))} :
          /\ start_date' = Combine(s, 0)
          /\ end_date' = Combine(e, 1)
    /\ pc' = "dates"
    /\ UNCHANGED <<text, outcome, df, participant_stats, daily_activity,
                   hourly_activity, filtered, metrics>>

\* main, lines 101-109: analyze; a None result is reported as "no data"
\* and main returns.
MainAnalyze ==
    /\ pc = "dates"
    /\ LET r == AnalyzeChat(df, start_date, end_date)
       IN  /\ participant_stats' = r.ret[1]
           /\ daily_activity' = r.ret[2]
           /\ hourly_activity' = r.ret[3]
           /\ filtered' = r.local
           /\ df' = r.caller
           /\ pc' = IF r.ret[1] = None THEN "no_data" ELSE "insights"
    /\ UNCHANGED <<text, outcome, min_date, max_date, start_date, end_date,
                   metrics>>

\* main, lines 112-154: the metrics and the three charts.
MainRender ==
    /\ pc = "insights"
    /\ metrics' = [total |-> Len(df.rows),
                   participants |-> Cardinality(participant_stats.index),
                   range |-> <<DateOf(min_date), DateOf(max_date)>>]
    /\ pc' = "rendered"
    /\ UNCHANGED <<text, outcome, df, min_date, max_date, start_date, end_date,
                   participant_stats, daily_activity, hourly_activity, filtered>>

\* A direct call analyze_chat(df, start, end) on what parse_chat returned,
\* each bound given or left at its default None.
CallAnalyzeChat ==
    /\ pc \in {"parsed", "no_messages"}
    /\ \E s, e \in CallBounds :
          LET r == AnalyzeChat(df, s, e)
          IN  /\ start_date' = s
              /\ end_date' = e
              /\ participant_stats' = r.ret[1]
              /\ daily_activity' = r.ret[2]
              /\ hourly_activity' = r.ret[3]
              /\ filtered' = r.local
              /\ df' = r.caller
    /\ pc' = "returned"
    /\ UNCHANGED <<text, outcome, min_date, max_date, metrics>>

Next ==
    \/ MainParse
    \/ MainDateInput
    \/ MainAnalyze
    \/ MainRender
    \/ CallAnalyzeChat

Spec == Init /\ [][Next]_vars

\* parse_chat alone, on every one-line text built from the date tokens.
InitLine == \E l \in TokenLines : InitWith(<<l>>)

NextLine == MainParse

SpecLine == InitLine /\ [][NextLine]_vars

(***************************************************************************)
(* The properties.                                                         *)
(***************************************************************************)
\* parse_chat has just returned.
Parsed == pc \in {"parsed", "no_messages"}

\* analyze_chat has returned (to main or to a direct caller).
Analyzed == pc \in {"no_data", "insights", "rendered", "returned"}

\* The record r lies in the inclusive range of the bounds given.
InRange(r) ==
    /\ start_date # None => DtKey(r["date"]) >= DtKey(start_date)
    /\ end_date # None => DtKey(r["date"]) <= DtKey(end_date)

\* The records of the caller's frame that lie in the range.
Remaining == { i \in DOMAIN df.rows : InRange(df.rows[i]) }

\* The sum of the counts of a summary.
RECURSIVE SumOver(_, _)
SumOver(count, keys) ==
    IF keys = {} THEN 0
    ELSE LET k == CHOOSE x \in keys : TRUE
         IN  count[k] + SumOver(count, keys \ {k})

Total(series) == SumOver(series.count, series.index)

\* The line i matched the grammar and its date token parsed under at
\* least one of the two formats.
ValidLine(i) ==
    /\ ReMatch(text[i]) # None
    /\ \/ Strptime_mdy(ReMatch(text[i]).date) # ValueError
       \/ Strptime_dmY(ReMatch(text[i]).date) # ValueError

\* The first field, the second field and the year field of a date token.
Slash1(tok) == CHOOSE p \in 1 .. Len(tok) : tok[p] = "/" /\ \A q \in 1 .. (p - 1) : tok[q] # "/"

Field1(tok) == IntOf(SubSeq(tok, 1, Slash1(tok) - 1))

Slash2(tok) == CHOOSE p \in (Slash1(tok) + 1) .. Len(tok) : tok[p] = "/"

Field2(tok) == IntOf(SubSeq(tok, Slash1(tok) + 1, Slash2(tok) - 1))

YearDigits(tok) == Len(tok) - Slash2(tok)

Token_03_04_23 == <<"0", "3", "/", "0", "4", "/", "2", "3">>

\* s with no leading and no trailing whitespace.
Trimmed(s) == s = <<>> \/ (s[1] \notin WhiteSpace /\ s[Len(s)] \notin WhiteSpace)

\* s is raw less a run of whitespace at each end.
TrimOf(s, raw) ==
    \E p \in 1 .. (Len(raw) + 1) : \E q \in (p - 1) .. Len(raw) :
        /\ s = SubSeq(raw, p, q)
        /\ \A x \in (1 .. (p - 1)) \cup ((q + 1) .. Len(raw)) : raw[x] \in WhiteSpace

\* C1: analyze_chat returns the None result whenever its input is empty or
\* the date filter leaves no record, so main takes its "no data" branch and
\* never goes on to render empty summaries.
C1_NoDataWhenNothingRemains ==
    (Analyzed /\ (df = None \/ Remaining = {}))
        => (participant_stats = None /\ pc \notin {"insights", "rendered"})

\* C2: parse_chat returns None exactly when no line yields a valid record
\* (no line matches, or every matching line's date token fails both
\* formats); otherwise it returns a frame with one record per valid line,
\* never an empty frame, and every malformed line is merely left out.
C2_NoneIffNoValidLine ==
    Parsed =>
        /\ df = None <=> (\A i \in DOMAIN text : ~ValidLine(i))
        /\ df # None =>
              /\ df.rows # <<>>
              /\ Len(df.rows) = Cardinality({ i \in DOMAIN text : ValidLine(i) })
        /\ \A i \in DOMAIN text :
              ~ValidLine(i) => outcome[i].kind \in {"nomatch", "skipped"}

C2_Witness ==
    /\ pc = "no_messages"
    /\ df = None
    /\ \E i \in DOMAIN text : outcome[i].kind = "skipped"
    /\ \E i \in DOMAIN text : outcome[i].kind = "nomatch"

\* C3: the filter keeps exactly the records with date >= start (when start
\* is given) and date <= end (when end is given); a record dated exactly
\* start or exactly end is kept, and with start > end nothing is kept.
C3_InclusiveFilter ==
    (Analyzed /\ filtered # None) =>
        /\ Len(filtered.rows) = Cardinality(Remaining)
        /\ \A j \in DOMAIN filtered.rows : InRange(filtered.rows[j])
        /\ \A i \in DOMAIN df.rows :
              (InRange(df.rows[i])
                 /\ (df.rows[i]["date"] = start_date \/ df.rows[i]["date"] = end_date))
              => \E j \in DOMAIN filtered.rows :
                    \A c \in {"date", "time", "sender", "message"} :
                        filtered.rows[j][c] = df.rows[i][c]
        /\ (start_date # None /\ end_date # None
              /\ DtKey(start_date) > DtKey(end_date)) => filtered.rows = <<>>

C3_Witness ==
    /\ pc = "returned"
    /\ filtered # None
    /\ start_date # None
    /\ end_date # None
    /\ DtKey(start_date) < DtKey(end_date)
    /\ \E j \in DOMAIN filtered.rows : filtered.rows[j]["date"] = start_date
    /\ \E j \in DOMAIN filtered.rows : filtered.rows[j]["date"] = end_date

\* C4: a matched date token is read as month/day/2-digit-year first, as
\* day/month/4-digit-year only if that fails, and the line is left out if
\* both fail; the token 03/04/23 is always 4 March 2023, by the first rule.
C4_RuleOneFirst ==
    Parsed =>
        \A i \in DOMAIN text :
            ReMatch(text[i]) # None =>
                LET tok == ReMatch(text[i]).date
                    o == outcome[i]
                IN  /\ Strptime_mdy(tok) # ValueError =>
                          (o.kind = "record" /\ o.rule = 1
                             /\ o.rec.date = Strptime_mdy(tok)
                             /\ o.rec.date.month = Field1(tok)
                             /\ o.rec.date.day = Field2(tok))
                    /\ (Strptime_mdy(tok) = ValueError
                          /\ Strptime_dmY(tok) # ValueError) =>
                          (o.kind = "record" /\ o.rule = 2
                             /\ o.rec.date = Strptime_dmY(tok)
                             /\ o.rec.date.day = Field1(tok)
                             /\ o.rec.date.month = Field2(tok))
                    /\ (Strptime_mdy(tok) = ValueError
                          /\ Strptime_dmY(tok) = ValueError) => o.kind = "skipped"
                    /\ tok = Token_03_04_23 =>
                          (o.kind = "record" /\ o.rule = 1
                             /\ o.rec.date = [year |-> 2023, month |-> 3,
                                              day |-> 4, tod |-> 0])

C4_Witness ==
    /\ pc = "parsed"
    /\ \E i \in DOMAIN text :
          /\ outcome[i].kind = "record"
          /\ outcome[i].groups.date = Token_03_04_23
          /\ outcome[i].rule = 1

\* C5: every key of the hourly summary lies in 0 .. 23.
C5_HoursWithinDay ==
    (Analyzed /\ hourly_activity # None) => hourly_activity.index \subseteq 0 .. 23

\* C6: analyze_chat does not change the frame its caller passed, whichever
\* bounds are given or absent.
C6_InputNotMutated ==
    [][(pc \in {"parsed", "dates"}) => (df' = df)]_vars

\* C7: for a non-empty filtered set, the counts of the participant summary,
\* of the daily summary and of the hourly summary each sum to the number of
\* filtered records.
C7_CountsSumToRecords ==
    (Analyzed /\ df # None /\ Remaining # {}) =>
        /\ participant_stats # None
        /\ Total(participant_stats) = Cardinality(Remaining)
        /\ Total(daily_activity) = Cardinality(Remaining)
        /\ Total(hourly_activity) = Cardinality(Remaining)

C7_Witness ==
    /\ pc = "rendered"
    /\ Cardinality(Remaining) = 2
    /\ Cardinality(participant_stats.index) = 1
    /\ Cardinality(daily_activity.index) = 1
    /\ Cardinality(hourly_activity.index) = 1

\* C8 as stated: every record has a non-empty sender with no leading or
\* trailing whitespace and a non-empty message that is the rest of its
\* line after the matched prefix.
C8_SenderNonEmpty ==
    Parsed =>
        \A i \in DOMAIN text :
            outcome[i].kind = "record" =>
                LET g == outcome[i].groups
                    r == outcome[i].rec
                IN  /\ r.sender # <<>>
                    /\ Trimmed(r.sender)
                    /\ r.message # <<>>
                    /\ text[i] = g.date \o <<",", " ">> \o g.time
                                   \o <<" ", "-", " ">> \o g.sender
                                   \o <<":", " ">> \o r.message

\* C8, amended: every record's sender is the matched sender (non-empty,
\* without a colon) less the whitespace at its ends, so it has no leading
\* or trailing whitespace and is empty when the matched sender is all
\* whitespace; its message is non-empty and is the rest of its line after
\* the matched prefix.
C8_SenderTrimmed ==
    Parsed =>
        \A i \in DOMAIN text :
            outcome[i].kind = "record" =>
                LET g == outcome[i].groups
                    r == outcome[i].rec
                IN  /\ g.sender # <<>>
                    /\ \A x \in DOMAIN g.sender : g.sender[x] # ":"
                    /\ Trimmed(r.sender)
                    /\ TrimOf(r.sender, g.sender)
                    /\ r.sender = <<>> <=>
                          (\A x \in DOMAIN g.sender : g.sender[x] \in WhiteSpace)
                    /\ r.message # <<>>
                    /\ text[i] = g.date \o <<",", " ">> \o g.time
                                   \o <<" ", "-", " ">> \o g.sender
                                   \o <<":", " ">> \o r.message

C8_Witness ==
    /\ pc = "parsed"
    /\ \E i \in DOMAIN text :
          /\ outcome[i].kind = "record"
          /\ outcome[i].rec.sender # outcome[i].groups.sender
          /\ outcome[i].rec.sender # <<>>
          /\ \E x \in DOMAIN outcome[i].rec.message : outcome[i].rec.message[x] = ":"
    /\ \E i \in DOMAIN text :
          outcome[i].kind = "record" /\ outcome[i].rec.sender = <<>>

\* C9: the "Total Messages" value handed to rendering is the number of
\* records left by the date filter, and the dates handed over are the
\* least and the greatest of the whole dataset.
C9_TotalIsFilteredCount ==
    pc = "rendered" =>
        /\ metrics.total = Cardinality(Remaining)
        /\ \A i \in DOMAIN df.rows :
              /\ DtKey(Combine(metrics.range[1], 0)) <= DtKey(df.rows[i]["date"])
              /\ DtKey(Combine(metrics.range[2], 0)) >= DtKey(df.rows[i]["date"])

\* C10: for a token the grammar accepts at most one date rule succeeds, and
\* the number of year digits decides which: two digits only by rule 1
\* (month/day), four only by rule 2 (day/month), three by neither; so a
\* day/month/2-digit-year or month/day/4-digit-year line whose day is over
\* 12 yields no record.
C10_YearDigitsDecide ==
    Parsed =>
        \A i \in DOMAIN text :
            ReMatch(text[i]) # None =>
                LET tok == ReMatch(text[i]).date
                    o == outcome[i]
                    ok1 == Strptime_mdy(tok) # ValueError
                    ok2 == Strptime_dmY(tok) # ValueError
                IN  /\ ~(ok1 /\ ok2)
                    /\ ok1 => YearDigits(tok) = 2
                    /\ ok2 => YearDigits(tok) = 4
                    /\ YearDigits(tok) = 3 => (~ok1 /\ ~ok2 /\ o.kind = "skipped")
                    /\ o.kind = "record" =>
                          \/ o.rule = 1 /\ YearDigits(tok) = 2
                               /\ o.rec.date.month = Field1(tok)
                               /\ o.rec.date.day = Field2(tok)
                          \/ o.rule = 2 /\ YearDigits(tok) = 4
                               /\ o.rec.date.day = Field1(tok)
                               /\ o.rec.date.month = Field2(tok)
                    /\ (YearDigits(tok) = 2 /\ Field1(tok) > 12) => o.kind = "skipped"
                    /\ (YearDigits(tok) = 4 /\ Field2(tok) > 12) => o.kind = "skipped"

C10_Witness ==
    /\ pc = "no_messages"
    /\ \E i \in DOMAIN text :
          /\ outcome[i].kind = "skipped"
          /\ YearDigits(outcome[i].groups.date) = 4
          /\ Field1(outcome[i].groups.date) = 12
          /\ Field2(outcome[i].groups.date) = 29

====
